---- MODULE Spec2Model ----
(***************************************************************************)
(* V-Compass: the App component with a live and a mock tracking mode       *)
(* (src/unnamed/part_000, lines 1-366).                                    *)
(*                                                                         *)
(* React state (useState) and refs (useRef) are the variables.  One action *)
(* is one callback run by the browser: a click handler, a geolocation      *)
(* callback, a timer callback, the continuation of an awaited fetch, an    *)
(* <audio> event.  The state updates of a callback are batched, so the     *)
(* re-render and the effects whose dependencies changed are part of the    *)
(* same action (operator Render).  A callback created by useCallback reads *)
(* the state of the render that created it: a fetch in flight keeps the    *)
(* userLocation and detectedPlane of the render that started it.           *)
(*                                                                         *)
(* Numbers: bearings are integer degrees, distances integer kilometres,    *)
(* altitude_m integer metres; altitudes in feet are scaled by 100000 so    *)
(* that the factor 3.28084 is exact.  The trigonometry of                  *)
(* calculateDistance and calculateBearing is tabulated on the positions of *)
(* the model; the normalisation (x + 360) % 360 is computed.               *)
(***************************************************************************)
EXTENDS Integers, Sequences, FiniteSets, TLC

VARIABLES
    isTracking,        \* useState(false)
    isMockMode,        \* useState(false)
    userLocation,      \* useState(null)
    detectedPlane,     \* useState(null)
    bearing,           \* useState(0)
    statusMessage,     \* useState("Vimaanam Compass your compass to happiness.")
    audioQueue,        \* useRef([])
    isSpeaking,        \* useRef(false)
    audioPlayer,       \* the <audio> element behind audioPlayerRef
    audioSrc,          \* audioPlayerRef.current.src, as the token of the clip
    audioRefs,         \* src/App.jsx: the Audio elements of audioRefs, by token
    geoSupported,      \* navigator.geolocation is defined
    phraseBearing,     \* the argument of a getDirectionPhrase call, in half degrees
    geoPending,        \* getCurrentPosition calls not yet answered
    inflight,          \* fetchRealPlaneData calls awaiting fetch()
    intervalId,        \* the live poll interval is scheduled
    mockIntervalId,    \* the mock poll interval is scheduled
    mockCallDue,       \* the mock effect is calling mockFetchPlaneData()
    scanningInterval,  \* the idle-rotation interval is scheduled
    scanTicks,         \* idle-rotation steps since the last other Bearing write
    last,              \* observation: what the last callback did
    run,               \* observation: the current run of live polls with one candidate
    sigSince,          \* observation: signals per identity since it last did not qualify
    sequential,        \* observation: no fetch of this live session overlapped another
    closestChosen,     \* observation: every candidate of this live session was a closest one
    pinned             \* observation: a poll committed Bearing in this tracking session

vars == <<isTracking, isMockMode, userLocation, detectedPlane, bearing,
          statusMessage,
          audioQueue, isSpeaking, audioPlayer, audioSrc, audioRefs, geoSupported,
          phraseBearing, geoPending, inflight, intervalId, mockIntervalId, mockCallDue,
          scanningInterval, scanTicks, last, run, sigSince, sequential,
          closestChosen, pinned>>

NULL == "null"
\* detectedPlane === null (and any other absent plane)
NoPlane == [icao24 |-> NULL]

\* ---------------------------------------------------------------- bounds
MaxBatch == 2
MaxInFlight == 2
MaxGeo == 1
MaxTicks == 1
MaxRun == 2
MaxQueue == 3
MaxHalfDegrees == 719
MaxGeoSkyPing == 2

\* --------------------------------------------------------- configuration
NOTIFICATION_RADIUS_KM == 30
MINIMUM_ALTITUDE_FT == 10000
TRACKING_INTERVAL_MS == 15000
MOCK_TRACKING_INTERVAL_MS == 25000
FtPerMetreScaled == 328084
SKYPING_RADIUS_KM == 5

\* ------------------------------------------------------------- the world
Locations == {"reported", "default"}
Positions == {"p1", "p2"}
LiveIds == {"A", "B"}
MockIds == {"mock1", "mock2"}

\* The sightings the data source reports: A and B, each at p1 or p2 above the
\* altitude threshold (3049 m is 10003 ft), and B at p1 below it (3047 m is
\* 9996 ft).
Planes == {[icao24 |-> "A", pos |-> "p1", altitude_m |-> 3049],
           [icao24 |-> "A", pos |-> "p2", altitude_m |-> 3049],
           [icao24 |-> "B", pos |-> "p1", altitude_m |-> 3049],
           [icao24 |-> "B", pos |-> "p2", altitude_m |-> 3049],
           [icao24 |-> "B", pos |-> "p1", altitude_m |-> 3047]}

RECURSIVE SeqsUpTo(_, _)
SeqsUpTo(S, n) ==
    IF n = 0 THEN {<<>>}
    ELSE LET shorter == SeqsUpTo(S, n - 1)
         IN  shorter \cup {Append(s, x) : s \in {t \in shorter : Len(t) = n - 1}, x \in S}

Batches == SeqsUpTo(Planes, MaxBatch)

\* ---------------------------------------------------------------- geodesy
\* calculateDistance(userLocation, plane), in km, on the model's positions:
\* both are within the radius of "reported", p1 is exactly at the radius of
\* "default".
calculateDistance(loc, pos) ==
    CASE loc = "reported" /\ pos = "p1" -> 5
      [] loc = "reported" /\ pos = "p2" -> 20
      [] loc = "default"  /\ pos = "p1" -> 30
      [] loc = "default"  /\ pos = "p2" -> 5

\* toDeg(Math.atan2(y, x)) of calculateBearing: a value in (-180, 180].
atan2Deg(loc, pos) ==
    CASE loc = "reported" /\ pos = "p1" -> -1
      [] loc = "reported" /\ pos = "p2" -> 90
      [] loc = "default"  /\ pos = "p1" -> -154
      [] loc = "default"  /\ pos = "p2" -> 180

calculateBearing(loc, pos) == (atan2Deg(loc, pos) + 360) % 360

\* plane.altitude_m * 3.28084, scaled by 100000.
altitudeFt(altitude_m) == altitude_m * FtPerMetreScaled

\* distance < NOTIFICATION_RADIUS_KM && altitudeFt > MINIMUM_ALTITUDE_FT
Admitted(distance, altFtScaled) ==
    /\ distance < NOTIFICATION_RADIUS_KM
    /\ altFtScaled > MINIMUM_ALTITUDE_FT * 100000

\* ------------------------------------------------- fetchRealPlaneData loop
\* The for loop over data.planes: acc.compass = NoPlane stands for
\* minDistance = Infinity.
LoopStep(acc, loc, plane) ==
    LET distance == calculateDistance(loc, plane.pos)
        altFt    == altitudeFt(plane.altitude_m)
        closer   == acc.compass = NoPlane \/ distance < acc.minDistance
    IN  [minDistance |-> IF closer THEN distance ELSE acc.minDistance,
         compass     |-> IF closer THEN plane ELSE acc.compass,
         notif       |-> IF Admitted(distance, altFt)
                           THEN [icao24 |-> plane.icao24, pos |-> plane.pos,
                                 altitude_ft |-> altFt]
                           ELSE acc.notif]

RECURSIVE Loop(_, _, _)
Loop(acc, loc, planes) ==
    IF planes = <<>> THEN acc
    ELSE Loop(LoopStep(acc, loc, Head(planes)), loc, Tail(planes))

ScanBatch(loc, planes) ==
    Loop([minDistance |-> 0, compass |-> NoPlane, notif |-> NoPlane], loc, planes)

\* A loop that never compares distances: the first sighting stays the target.
closestPlaneForCompassFirst(loc, planes) ==
    IF planes = <<>> THEN NoPlane ELSE Head(planes)

closestPlaneForCompass(loc, planes) == ScanBatch(loc, planes).compass
closestPlaneForNotification(loc, planes) == ScanBatch(loc, planes).notif

\* A debounce that compares nothing: every candidate is new.
IsNewPlaneAlways(capturedId, cand) == TRUE

\* A debounce with the comparison inverted (=== for !==).
IsNewPlaneInverted(capturedId, cand) == capturedId = NULL \/ capturedId = cand.icao24

\* !detectedPlane || detectedPlane.icao24 !== candidate.icao24
IsNewPlane(capturedId, cand) == capturedId = NULL \/ capturedId # cand.icao24

Min(a, b) == IF a < b THEN a ELSE b

RemoveAt(seq, i) == SubSeq(seq, 1, i - 1) \o SubSeq(seq, i + 1, Len(seq))

\* --------------------------------------------------------------- narration
soundFiles == {"notification", "North", "South", "East", "West",
               "NorthWest", "NorthEast", "SouthWest", "EastSouth"}

\* A getDirectionPhrase whose sectors stop short of their upper edge.
getDirectionPhraseOpenUpper(h) ==
    IF h > 675 \/ h < 45 THEN <<"North">>
    ELSE IF h > 45 /\ h < 135 THEN <<"NorthEast">>
    ELSE IF h > 135 /\ h < 225 THEN <<"East">>
    ELSE IF h > 225 /\ h < 315 THEN <<"EastSouth">>
    ELSE IF h > 315 /\ h < 405 THEN <<"South">>
    ELSE IF h > 405 /\ h < 495 THEN <<"SouthWest">>
    ELSE IF h > 495 /\ h < 585 THEN <<"West">>
    ELSE IF h > 585 /\ h < 675 THEN <<"NorthWest">>
    ELSE <<>>

\* A getDirectionPhrase whose sectors are closed below and open above.
getDirectionPhraseClosedLower(h) ==
    IF h >= 675 \/ h < 45 THEN <<"North">>
    ELSE IF h >= 45 /\ h < 135 THEN <<"NorthEast">>
    ELSE IF h >= 135 /\ h < 225 THEN <<"East">>
    ELSE IF h >= 225 /\ h < 315 THEN <<"EastSouth">>
    ELSE IF h >= 315 /\ h < 405 THEN <<"South">>
    ELSE IF h >= 405 /\ h < 495 THEN <<"SouthWest">>
    ELSE IF h >= 495 /\ h < 585 THEN <<"West">>
    ELSE IF h >= 585 /\ h < 675 THEN <<"NorthWest">>
    ELSE <<>>

\* getDirectionPhrase(bearing); h is the bearing in half degrees.
getDirectionPhrase(h) ==
    IF h > 675 \/ h <= 45 THEN <<"North">>
    ELSE IF h > 45 /\ h <= 135 THEN <<"NorthEast">>
    ELSE IF h > 135 /\ h <= 225 THEN <<"East">>
    ELSE IF h > 225 /\ h <= 315 THEN <<"EastSouth">>
    ELSE IF h > 315 /\ h <= 405 THEN <<"South">>
    ELSE IF h > 405 /\ h <= 495 THEN <<"SouthWest">>
    ELSE IF h > 495 /\ h <= 585 THEN <<"West">>
    ELSE IF h > 585 /\ h <= 675 THEN <<"NorthWest">>
    ELSE <<>>

\* src/App.jsx: the keys of audioRefs.
Refs == {"North", "South", "East", "West", "between", "and"}

\* The narration state as one value: [queue, speaking, player, src].
Audio == [queue |-> audioQueue, speaking |-> isSpeaking, player |-> audioPlayer,
          src |-> audioSrc]

\* A stopAllAudio that forgets audioQueue.current = [].
stopAllAudioKeepQueue(a) == [a EXCEPT !.speaking = FALSE, !.player = "paused"]

\* A stopAllAudio that forgets isSpeaking.current = false.
stopAllAudioKeepFlag(a) == [a EXCEPT !.queue = <<>>, !.player = "paused"]

stopAllAudio(a) == [a EXCEPT !.queue = <<>>, !.speaking = FALSE, !.player = "paused"]

\* A playNextInQueue that reads the head of the queue without shift().
playNextInQueueNoShift(a, ok) ==
    IF a.queue = <<>> THEN [a EXCEPT !.speaking = FALSE]
    ELSE LET soundName == Head(a.queue)
         IN  IF soundName \in soundFiles
               THEN [a EXCEPT !.speaking = TRUE, !.src = soundName,
                              !.player = IF ok THEN "playing" ELSE "failing"]
               ELSE [a EXCEPT !.queue = <<>>, !.speaking = FALSE]

\* A playNextInQueue that stops at a token without a clip instead of calling
\* itself.
playNextInQueueNoSkip(a, ok) ==
    IF a.queue = <<>> THEN [a EXCEPT !.speaking = FALSE]
    ELSE LET soundName == Head(a.queue)
             shifted   == [a EXCEPT !.queue = Tail(a.queue), !.speaking = TRUE]
         IN  IF soundName \in soundFiles
               THEN [shifted EXCEPT !.src = soundName,
                                    !.player = IF ok THEN "playing" ELSE "failing"]
               ELSE shifted

\* ok: play() starts the clip; otherwise its promise will reject.
RECURSIVE playNextInQueue(_, _)
playNextInQueue(a, ok) ==
    IF a.queue = <<>> THEN [a EXCEPT !.speaking = FALSE]
    ELSE LET soundName == Head(a.queue)
             shifted   == [a EXCEPT !.queue = Tail(a.queue), !.speaking = TRUE]
         IN  IF soundName \in soundFiles
               THEN [shifted EXCEPT !.src = soundName,
                                    !.player = IF ok THEN "playing" ELSE "failing"]
               ELSE playNextInQueue(shifted, ok)

SetAudio(a) ==
    /\ audioQueue' = a.queue
    /\ isSpeaking' = a.speaking
    /\ audioPlayer' = a.player
    /\ audioSrc' = a.src

\* ------------------------------------------------------ render and effects
\* A scanning effect that does not look at detectedPlane.
ScanningScheduledAnyPlane(trk, mock, plane) == trk \/ mock

\* (isTracking || isMockMode) && !detectedPlane
ScanningScheduled(trk, mock, plane) == (trk \/ mock) /\ plane = NoPlane

\* A tracking effect that does not look at isTracking.
TrackingScheduledAnyMode(trk, loc) == loc # NULL

\* isTracking && userLocation
TrackingScheduled(trk, loc) == trk /\ loc # NULL

\* isMockMode && userLocation
MockScheduled(mock, loc) == mock /\ loc # NULL

\* The closure of fetchRealPlaneData: of detectedPlane it reads the identity.
Closure(loc, plane) == [loc |-> loc, det |-> plane.icao24]

\* The re-render after a callback set the state to (trk, mock, loc, plane),
\* and the effects whose dependencies changed.  locNew, planeNew: the setter
\* was given a value that is not Object.is-equal to the old one.  fl: the
\* fetches in flight; seq: the observation `sequential` before the effects;
\* msg: the status message the callback left.  The tracking effect's call of
\* fetchRealPlaneData() sets the message once more.
Render(trk, mock, loc, plane, locNew, planeNew, fl, seq, msg) ==
    LET fetchChanged == locNew \/ planeNew
        liveDeps == trk # isTracking \/ locNew \/ fetchChanged
        mockDeps == mock # isMockMode \/ locNew \/ fetchChanged
        scanDeps == trk # isTracking \/ mock # isMockMode \/ planeNew
        startFetch == liveDeps /\ TrackingScheduled(trk, loc)
    IN  /\ isTracking' = trk
        /\ isMockMode' = mock
        /\ userLocation' = loc
        /\ detectedPlane' = plane
        /\ inflight' = IF startFetch THEN Append(fl, Closure(loc, plane)) ELSE fl
        /\ Len(inflight') <= MaxInFlight
        /\ intervalId' = IF liveDeps THEN TrackingScheduled(trk, loc) ELSE intervalId
        /\ mockIntervalId' = IF mockDeps THEN MockScheduled(mock, loc) ELSE mockIntervalId
        /\ mockCallDue' = (mockDeps /\ MockScheduled(mock, loc))
        /\ scanningInterval' = IF scanDeps THEN ScanningScheduled(trk, mock, plane)
                                           ELSE scanningInterval
        /\ sequential' = IF startFetch /\ fl # <<>> THEN FALSE ELSE seq
        /\ statusMessage' = IF startFetch THEN "Scanning the skies for live data..."
                                          ELSE msg

\* ------------------------------------------------------------ observation
Did(op) == [op |-> op, planes |-> <<>>, loc |-> NULL, captured |-> NULL,
            cand |-> NoPlane, compass |-> NoPlane, signal |-> FALSE,
            switched |-> FALSE, wasSpeaking |-> FALSE, hadPlane |-> FALSE,
            hadQueue |-> FALSE]

NoRun == [id |-> NULL, len |-> 0, signals |-> 0, after |-> NULL]

NoSignals == [id \in LiveIds |-> 0]

Init ==
    /\ isTracking = FALSE
    /\ isMockMode = FALSE
    /\ userLocation = NULL
    /\ detectedPlane = NoPlane
    /\ bearing = 0
    /\ statusMessage = "Vimaanam Compass your compass to happiness."
    /\ audioQueue = <<>>
    /\ isSpeaking = FALSE
    /\ audioPlayer = "paused"
    /\ audioSrc = NULL
    /\ audioRefs = [token \in Refs |-> "paused"]
    /\ geoSupported \in BOOLEAN
    /\ phraseBearing = 0
    /\ geoPending = 0
    /\ inflight = <<>>
    /\ intervalId = FALSE
    /\ mockIntervalId = FALSE
    /\ mockCallDue = FALSE
    /\ scanningInterval = FALSE
    /\ scanTicks = 0
    /\ last = Did("init")
    /\ run = NoRun
    /\ sigSince = NoSignals
    /\ sequential = TRUE
    /\ closestChosen = TRUE
    /\ pinned = FALSE

\* ---------------------------------------------------------------- actions
Quiet == ~mockCallDue

\* getLocation, called when !userLocation.
getLocation ==
    /\ geoPending' = IF userLocation = NULL /\ geoSupported
                        THEN geoPending + 1 ELSE geoPending
    /\ geoPending' <= MaxGeo

Clicked(op) == [Did(op) EXCEPT !.switched = IF op = "handleStartStopClick"
                                              THEN isMockMode ELSE isTracking,
                               !.wasSpeaking = isSpeaking,
                               !.hadPlane = detectedPlane # NoPlane,
                               !.hadQueue = audioQueue # <<>>]

\* A live start that forgets setIsMockMode(false).
LiveStartKeepMock == [trk |-> TRUE, mock |-> isMockMode, plane |-> NoPlane]

\* setIsMockMode(false); setDetectedPlane(null); setIsTracking(true)
LiveStart == [trk |-> TRUE, mock |-> FALSE, plane |-> NoPlane]

\* setIsTracking(false); setDetectedPlane(null); setIsMockMode(true)
MockStart == [trk |-> FALSE, mock |-> TRUE, plane |-> NoPlane]

\* A handleStartStopClick whose stop branch also resets the position:
\* setUserLocation(null).
handleStartStopClickResetsLocation ==
    /\ Quiet
    /\ getLocation
    /\ SetAudio(stopAllAudio(Audio))
    /\ IF isTracking
         THEN Render(FALSE, isMockMode, NULL, detectedPlane,
                     userLocation # NULL, FALSE, inflight, TRUE, "Tracking stopped.")
         ELSE Render(LiveStart.trk, LiveStart.mock, userLocation, LiveStart.plane,
                     FALSE, LiveStart.plane # detectedPlane, inflight, TRUE,
                     "Live tracking activated...")
    /\ run' = NoRun
    /\ sigSince' = NoSignals
    /\ closestChosen' = TRUE
    /\ pinned' = FALSE
    /\ last' = Clicked("handleStartStopClick")
    /\ UNCHANGED <<bearing, geoSupported, phraseBearing, audioRefs, scanTicks>>

handleStartStopClick ==
    /\ Quiet
    /\ getLocation
    /\ SetAudio(stopAllAudio(Audio))
    /\ IF isTracking
         THEN Render(FALSE, isMockMode, userLocation, detectedPlane,
                     FALSE, FALSE, inflight, TRUE, "Tracking stopped.")
         ELSE Render(LiveStart.trk, LiveStart.mock, userLocation, LiveStart.plane,
                     FALSE, LiveStart.plane # detectedPlane, inflight, TRUE,
                     "Live tracking activated...")
    /\ run' = NoRun
    /\ sigSince' = NoSignals
    /\ closestChosen' = TRUE
    /\ pinned' = FALSE
    /\ last' = Clicked("handleStartStopClick")
    /\ UNCHANGED <<bearing, geoSupported, phraseBearing, audioRefs, scanTicks>>

handleMockModeClick ==
    /\ Quiet
    /\ getLocation
    /\ SetAudio(stopAllAudio(Audio))
    /\ IF isMockMode
         THEN Render(isTracking, FALSE, userLocation, detectedPlane,
                     FALSE, FALSE, inflight, sequential, "Mock mode stopped.")
         ELSE Render(MockStart.trk, MockStart.mock, userLocation, MockStart.plane,
                     FALSE, MockStart.plane # detectedPlane, inflight, TRUE,
                     "Mock mode activated...")
    /\ run' = NoRun
    /\ sigSince' = NoSignals
    /\ closestChosen' = TRUE
    /\ pinned' = FALSE
    /\ last' = Clicked("handleMockModeClick")
    /\ UNCHANGED <<bearing, geoSupported, phraseBearing, audioRefs, scanTicks>>

\* The callbacks of getCurrentPosition.
PositionCallback(loc, msg) ==
    /\ Quiet
    /\ geoPending > 0
    /\ geoPending' = geoPending - 1
    /\ Render(isTracking, isMockMode, loc, detectedPlane, TRUE, FALSE,
              inflight, sequential, msg)
    /\ last' = Did("other")
    /\ UNCHANGED <<bearing, audioQueue, isSpeaking, audioPlayer, audioSrc,
                   geoSupported, phraseBearing, audioRefs,
                   scanTicks, run, sigSince, closestChosen, pinned>>

PositionSuccess == PositionCallback("reported", "Location found! Ready to track.")

PositionError ==
    PositionCallback("default",
                     "Unable to get location. Using default. Please allow access.")

\* setInterval(fetchRealPlaneData, TRACKING_INTERVAL_MS) fires: the call runs
\* up to `await fetch(...)`.
IntervalFetch ==
    /\ Quiet
    /\ intervalId
    /\ Len(inflight) < MaxInFlight
    /\ inflight' = Append(inflight, Closure(userLocation, detectedPlane))
    /\ sequential' = IF inflight # <<>> THEN FALSE ELSE sequential
    /\ statusMessage' = "Scanning the skies for live data..."
    /\ last' = Did("other")
    /\ UNCHANGED <<isTracking, isMockMode, userLocation, detectedPlane, bearing,
                   audioQueue, isSpeaking, audioPlayer, audioSrc, geoSupported,
                   phraseBearing, audioRefs, geoPending,
                   intervalId, mockIntervalId, mockCallDue, scanningInterval,
                   scanTicks, run, sigSince, closestChosen, pinned>>

\* The observation of a run of live polls with one candidate.
NextRun(cand, signal) ==
    LET n == IF signal THEN 1 ELSE 0
    IN  IF cand = NoPlane
          THEN [NoRun EXCEPT !.after = IF run.id # NULL THEN run.id ELSE run.after]
        ELSE IF cand.icao24 = run.id
          THEN [run EXCEPT !.len = Min(run.len + 1, MaxRun),
                           !.signals = Min(run.signals + n, MaxRun)]
        ELSE [id |-> cand.icao24, len |-> 1, signals |-> n,
              after |-> IF run.id = NULL THEN run.after ELSE NULL]

Qualifies(id, loc, planes) ==
    \E k \in 1..Len(planes) :
        /\ planes[k].icao24 = id
        /\ Admitted(calculateDistance(loc, planes[k].pos),
                    altitudeFt(planes[k].altitude_m))

\* cand is a sighting of minimum distance among the admitted ones.
IsClosestAdmitted(loc, planes, cand) ==
    \A k \in 1..Len(planes) :
        Admitted(calculateDistance(loc, planes[k].pos),
                 altitudeFt(planes[k].altitude_m))
            => /\ cand # NoPlane
               /\ calculateDistance(loc, cand.pos)
                    <= calculateDistance(loc, planes[k].pos)

NextSigSince(loc, planes, cand, signal) ==
    [id \in LiveIds |->
        IF ~Qualifies(id, loc, planes) THEN 0
        ELSE IF signal /\ cand.icao24 = id THEN Min(sigSince[id] + 1, MaxRun)
        ELSE sigSince[id]]

\* A debounce without the else branch setDetectedPlane(null).
NotifiedAfterKeep(cand, promote, isMock) ==
    IF promote
      THEN [icao24 |-> cand.icao24, pos |-> cand.pos,
            altitude_ft |-> cand.altitude_ft, isMock |-> isMock]
    ELSE detectedPlane

\* if (closestPlaneForNotification) { if (new) setDetectedPlane({...}) }
\* else setDetectedPlane(null)
NotifiedAfter(cand, promote, isMock) ==
    IF cand = NoPlane THEN NoPlane
    ELSE IF promote
      THEN [icao24 |-> cand.icao24, pos |-> cand.pos,
            altitude_ft |-> cand.altitude_ft, isMock |-> isMock]
    ELSE detectedPlane

\* fetch() and response.json() succeeded with data.planes = planes: the rest
\* of fetchRealPlaneData, for the i-th call in flight.
fetchRealPlaneData(i, planes) ==
    \E f \in {inflight[i]} :
    \E compass \in {closestPlaneForCompass(f.loc, planes)} :
    \E cand \in {closestPlaneForNotification(f.loc, planes)} :
    \E promote \in {cand # NoPlane /\ IsNewPlane(f.det, cand)} :
    \E plane \in {NotifiedAfter(cand, promote, FALSE)} :
        /\ bearing' = IF compass # NoPlane
                        THEN calculateBearing(f.loc, compass.pos) ELSE bearing
        /\ scanTicks' = IF compass # NoPlane THEN 0 ELSE scanTicks
        /\ Render(isTracking, isMockMode, userLocation, plane, FALSE,
                  promote \/ plane # detectedPlane, RemoveAt(inflight, i),
                  sequential, statusMessage)
        /\ last' = [Did("fetchRealPlaneData.then") EXCEPT
                        !.planes = planes, !.loc = f.loc, !.captured = f.det,
                        !.cand = cand, !.compass = compass, !.signal = promote,
                        !.hadPlane = detectedPlane # NoPlane]
        /\ run' = IF isTracking THEN NextRun(cand, promote) ELSE run
        /\ sigSince' = IF isTracking THEN NextSigSince(f.loc, planes, cand, promote)
                                     ELSE sigSince
        /\ closestChosen' = IF isTracking
                                THEN closestChosen /\ IsClosestAdmitted(f.loc, planes, cand)
                                ELSE closestChosen
        /\ pinned' = IF compass # NoPlane /\ (isTracking \/ isMockMode)
                       THEN TRUE ELSE pinned

FetchResolvedWith(batches) ==
    /\ Quiet
    /\ \E i \in 1..Len(inflight) : \E planes \in batches :
           fetchRealPlaneData(i, planes)
    /\ UNCHANGED <<audioQueue, isSpeaking, audioPlayer, audioSrc, geoSupported,
                   phraseBearing, audioRefs, geoPending>>

FetchResolved == FetchResolvedWith(Batches)

\* The data source reports at most one sighting.
FetchResolvedShort == FetchResolvedWith({b \in Batches : Len(b) <= 1})

\* A catch block that also resets the detection: setDetectedPlane(null).
FetchFailedClears ==
    /\ Quiet
    /\ \E i \in 1..Len(inflight) :
           Render(isTracking, isMockMode, userLocation, NoPlane, FALSE,
                  detectedPlane # NoPlane, RemoveAt(inflight, i), sequential,
                  "Error connecting to server. Is it running?")
    /\ last' = Did("fetchRealPlaneData.catch")
    /\ UNCHANGED <<bearing, audioQueue, isSpeaking, audioPlayer, audioSrc,
                   geoSupported, phraseBearing, audioRefs,
                   geoPending, scanTicks, run, sigSince, closestChosen, pinned>>

\* fetch() rejected, !response.ok, or a malformed body: the catch block.
FetchFailed ==
    /\ Quiet
    /\ \E i \in 1..Len(inflight) : inflight' = RemoveAt(inflight, i)
    /\ statusMessage' = "Error connecting to server. Is it running?"
    /\ last' = Did("fetchRealPlaneData.catch")
    /\ UNCHANGED <<isTracking, isMockMode, userLocation, detectedPlane, bearing,
                   audioQueue, isSpeaking, audioPlayer, audioSrc, geoSupported,
                   phraseBearing, audioRefs, geoPending,
                   intervalId, mockIntervalId, mockCallDue, scanningInterval,
                   scanTicks, run, sigSince, sequential, closestChosen, pinned>>

\* lat, lon within 0.05 degrees of the user position.
MockPositions(loc) == {pos \in Positions : calculateDistance(loc, pos) < 8}

\* Math.random() * 20000 ft above MINIMUM_ALTITUDE_FT; 0 is a possible draw.
MockExtraFt == {0, 5000}

mockFetchPlaneData(id, pos, extraFt) ==
    LET distance == calculateDistance(userLocation, pos)
        altFt    == (MINIMUM_ALTITUDE_FT + extraFt) * 100000
        mockPlane == [icao24 |-> id, pos |-> pos, altitude_ft |-> altFt]
        cand     == IF Admitted(distance, altFt) THEN mockPlane ELSE NoPlane
        promote  == cand # NoPlane /\ IsNewPlane(detectedPlane.icao24, cand)
        plane    == NotifiedAfter(cand, promote, TRUE)
        planeNew == promote \/ plane # detectedPlane
    IN  /\ userLocation # NULL
        /\ bearing' = calculateBearing(userLocation, pos)
        /\ scanTicks' = 0
        /\ Render(isTracking, isMockMode, userLocation, plane, FALSE, planeNew,
                  inflight, sequential, "Generating mock plane data...")
        /\ last' = [Did("mockFetchPlaneData") EXCEPT
                        !.loc = userLocation, !.captured = detectedPlane.icao24,
                        !.cand = cand, !.compass = mockPlane, !.signal = promote,
                        !.hadPlane = detectedPlane # NoPlane]
        /\ pinned' = TRUE
        /\ UNCHANGED <<audioQueue, isSpeaking, audioPlayer, audioSrc, geoSupported,
                       phraseBearing, audioRefs,
                       geoPending, run, sigSince, closestChosen>>

MockPoll ==
    \E id \in MockIds : \E pos \in MockPositions(userLocation) :
        \E extraFt \in MockExtraFt : mockFetchPlaneData(id, pos, extraFt)

\* The mock effect's own call of mockFetchPlaneData().
MockEffectCall == mockCallDue /\ MockPoll

\* setInterval(mockFetchPlaneData, MOCK_TRACKING_INTERVAL_MS) fires.
MockIntervalCall == Quiet /\ mockIntervalId /\ MockPoll

\* An idle-rotation step without the % 360.
RotateStepNoWrap(prevBearing) == prevBearing + 2

\* setBearing(prevBearing => (prevBearing + 2) % 360), every 50 ms.
RotateStep(prevBearing) == (prevBearing + 2) % 360

ScanningTick ==
    /\ Quiet
    /\ scanningInterval
    /\ scanTicks < MaxTicks
    /\ bearing' = RotateStep(bearing)
    /\ scanTicks' = scanTicks + 1
    /\ last' = Did("scanningInterval")
    /\ UNCHANGED <<statusMessage, isTracking, isMockMode, userLocation, detectedPlane,
                   audioQueue, isSpeaking, audioPlayer, audioSrc, geoSupported,
                   phraseBearing, audioRefs, geoPending,
                   inflight, intervalId, mockIntervalId, mockCallDue,
                   scanningInterval, run, sigSince, sequential, closestChosen,
                   pinned>>

\* A handleSpeakDirection without the isSpeaking.current test.
speakDirectionNoGuard(a, ok) ==
    IF detectedPlane = NoPlane THEN a
    ELSE IF userLocation = NULL THEN stopAllAudio(a)
    ELSE playNextInQueue(
             [stopAllAudio(a) EXCEPT
                 !.queue = getDirectionPhrase(
                     2 * calculateBearing(userLocation, detectedPlane.pos))], ok)

\* A handleSpeakDirection that reads the bearing state instead of computing
\* the bearing of detectedPlane.
speakDirectionFromBearing(a, ok) ==
    IF a.speaking \/ detectedPlane = NoPlane THEN a
    ELSE playNextInQueue(
             [stopAllAudio(a) EXCEPT !.queue = getDirectionPhrase(2 * bearing)], ok)

\* The "Tell Me Where to Look" button, rendered while detectedPlane is set.
speakDirection(a, ok) ==
    IF a.speaking \/ detectedPlane = NoPlane THEN a
    ELSE IF userLocation = NULL THEN stopAllAudio(a)
    ELSE LET planeBearing == calculateBearing(userLocation, detectedPlane.pos)
             phrase == getDirectionPhrase(2 * planeBearing)
         IN  playNextInQueue([stopAllAudio(a) EXCEPT !.queue = phrase], ok)

handleSpeakDirection ==
    /\ Quiet
    /\ detectedPlane # NoPlane
    /\ \E ok \in BOOLEAN : SetAudio(speakDirection(Audio, ok))
    /\ last' = [Did("handleSpeakDirection") EXCEPT !.wasSpeaking = isSpeaking]
    /\ UNCHANGED <<statusMessage, isTracking, isMockMode, userLocation,
                   detectedPlane, bearing,
                   geoSupported, phraseBearing, audioRefs, geoPending, inflight,
                   intervalId, mockIntervalId,
                   mockCallDue, scanningInterval, scanTicks, run, sigSince,
                   sequential, closestChosen, pinned>>

\* onEnded={playNextInQueue}
AudioEnded ==
    /\ Quiet
    /\ audioPlayer = "playing"
    /\ \E ok \in BOOLEAN :
           SetAudio(playNextInQueue([Audio EXCEPT !.player = "paused"], ok))
    /\ last' = [Did("onEnded") EXCEPT !.hadQueue = audioQueue # <<>>]
    /\ UNCHANGED <<statusMessage, isTracking, isMockMode, userLocation,
                   detectedPlane, bearing,
                   geoSupported, phraseBearing, audioRefs, geoPending, inflight,
                   intervalId, mockIntervalId,
                   mockCallDue, scanningInterval, scanTicks, run, sigSince,
                   sequential, closestChosen, pinned>>

\* play().catch(e => { isSpeaking.current = false; })
PlayRejected ==
    /\ Quiet
    /\ audioPlayer = "failing"
    /\ SetAudio([Audio EXCEPT !.speaking = FALSE, !.player = "paused"])
    /\ last' = Did("play.catch")
    /\ UNCHANGED <<statusMessage, isTracking, isMockMode, userLocation,
                   detectedPlane, bearing,
                   geoSupported, phraseBearing, audioRefs, geoPending, inflight,
                   intervalId, mockIntervalId,
                   mockCallDue, scanningInterval, scanTicks, run, sigSince,
                   sequential, closestChosen, pinned>>

\* The live session: the user clicks neither the mock button nor the
\* narration button.
NextLive ==
    \/ handleStartStopClick
    \/ PositionSuccess
    \/ PositionError
    \/ IntervalFetch
    \/ FetchResolved
    \/ FetchFailed
    \/ ScanningTick

SpecLive == Init /\ [][NextLive]_vars

Next ==
    \/ handleStartStopClick
    \/ handleMockModeClick
    \/ PositionSuccess
    \/ PositionError
    \/ IntervalFetch
    \/ FetchResolvedShort
    \/ FetchFailed
    \/ MockEffectCall
    \/ MockIntervalCall
    \/ ScanningTick
    \/ handleSpeakDirection
    \/ AudioEnded
    \/ PlayRejected

Spec == Init /\ [][Next]_vars

\* The location collaborator answers every getCurrentPosition call.
SpecFair == Spec /\ WF_vars(PositionSuccess \/ PositionError)

\* ------------------------------------------------------ src/App.jsx (SkyPing)
\* The App of src/App.jsx: one tracking mode fed by mock sightings, the
\* compound phrase policy, one Audio element per token (audioRefs), no
\* stopAllAudio.  It has the state of the App above without isMockMode; its
\* status message is not modelled.

\* A compound getDirectionPhrase that names the flanking cardinals
\* anticlockwise.
getDirectionPhraseAnticlockwise(h) ==
    IF h > 675 \/ h <= 45 THEN <<"North">>
    ELSE IF h > 45 /\ h <= 135 THEN <<"between", "East", "and", "North">>
    ELSE IF h > 135 /\ h <= 225 THEN <<"East">>
    ELSE IF h > 225 /\ h <= 315 THEN <<"between", "South", "and", "East">>
    ELSE IF h > 315 /\ h <= 405 THEN <<"South">>
    ELSE IF h > 405 /\ h <= 495 THEN <<"between", "West", "and", "South">>
    ELSE IF h > 495 /\ h <= 585 THEN <<"West">>
    ELSE IF h > 585 /\ h <= 675 THEN <<"between", "North", "and", "West">>
    ELSE <<>>

\* getDirectionPhrase(bearing) of src/App.jsx; h is the bearing in half degrees.
getDirectionPhraseCompound(h) ==
    IF h > 675 \/ h <= 45 THEN <<"North">>
    ELSE IF h > 45 /\ h <= 135 THEN <<"between", "North", "and", "East">>
    ELSE IF h > 135 /\ h <= 225 THEN <<"East">>
    ELSE IF h > 225 /\ h <= 315 THEN <<"between", "East", "and", "South">>
    ELSE IF h > 315 /\ h <= 405 THEN <<"South">>
    ELSE IF h > 405 /\ h <= 495 THEN <<"between", "South", "and", "West">>
    ELSE IF h > 495 /\ h <= 585 THEN <<"West">>
    ELSE IF h > 585 /\ h <= 675 THEN <<"between", "West", "and", "North">>
    ELSE <<>>

\* The narration state as one value: [queue, speaking, refs].
AudioSkyPing == [queue |-> audioQueue, speaking |-> isSpeaking, refs |-> audioRefs]

\* ok: play() starts the clip; otherwise its promise will reject.
RECURSIVE playNextInQueueSkyPing(_, _)
playNextInQueueSkyPing(a, ok) ==
    IF a.queue = <<>> THEN [a EXCEPT !.speaking = FALSE]
    ELSE LET token   == Head(a.queue)
             shifted == [a EXCEPT !.queue = Tail(a.queue), !.speaking = TRUE]
         IN  IF token \in Refs
               THEN [shifted EXCEPT !.refs[token] = IF ok THEN "playing" ELSE "failing"]
               ELSE playNextInQueueSkyPing(shifted, ok)

SetAudioSkyPing(a) ==
    /\ audioQueue' = a.queue
    /\ isSpeaking' = a.speaking
    /\ audioRefs' = a.refs

\* What the App of src/App.jsx does not have or does not touch.
FrameSkyPing ==
    UNCHANGED <<isMockMode, statusMessage, audioPlayer, audioSrc, geoSupported,
                phraseBearing, inflight,
                mockIntervalId, mockCallDue, scanningInterval, scanTicks, run,
                sigSince, sequential, closestChosen, pinned>>

\* getLocation of src/App.jsx, called when !userLocation.
getLocationSkyPing ==
    /\ geoPending' = IF userLocation = NULL /\ geoSupported
                        THEN geoPending + 1 ELSE geoPending
    /\ geoPending' <= MaxGeoSkyPing

\* setIsTracking(prev => !prev), with the notification permission granted;
\* the interval effect follows the render.
handleStartStopClickSkyPing ==
    /\ getLocationSkyPing
    /\ isTracking' = ~isTracking
    /\ intervalId' = (isTracking' /\ userLocation # NULL)
    /\ last' = Did("SkyPing.handleStartStopClick")
    /\ FrameSkyPing
    /\ UNCHANGED <<userLocation, detectedPlane, bearing, audioQueue, isSpeaking,
                   audioRefs>>

\* The callbacks of getCurrentPosition.
PositionCallbackSkyPing ==
    /\ geoPending > 0
    /\ geoPending' = geoPending - 1
    /\ \E loc \in Locations : userLocation' = loc
    /\ intervalId' = isTracking
    /\ last' = Did("SkyPing.getCurrentPosition")
    /\ FrameSkyPing
    /\ UNCHANGED <<isTracking, detectedPlane, bearing, audioQueue, isSpeaking,
                   audioRefs>>

\* The direction of the random mockPlane from userLocation, in degrees.
BearingsSkyPing == {0, 45, 100, 206}

\* calculateDistance to the random mockPlane, in km.
DistancesSkyPing == {3, 6}

\* toDeg(Math.atan2(y, x)) of calculateBearing from one location of the
\* model to the other, which is far beyond the reach of a mock plane.
atan2DegBetween(from, to) == IF from = "reported" THEN -160 ELSE 20

\* calculateBearing(loc, plane) for a mock plane of src/App.jsx, whose
\* lat/lon are those of the location it was generated at (around) displaced
\* in the direction towards: from that location it is the bearing drawn,
\* from the other one the bearing to that location.
calculateBearingSkyPing(loc, plane) ==
    IF loc = plane.around THEN plane.towards
    ELSE (atan2DegBetween(loc, plane.around) + 360) % 360

\* setInterval(mockFetchPlaneData, TRACKING_INTERVAL_MS) fires.  The icao24
\* is 'mock' + Date.now(), which differs from that of any earlier poll.
mockFetchPlaneDataSkyPing ==
    /\ intervalId
    /\ \E id \in MockIds \ {detectedPlane.icao24} :
       \E towards \in BearingsSkyPing :
       \E distance \in DistancesSkyPing : \E extraFt \in MockExtraFt :
          LET mockPlane  == [icao24 |-> id, around |-> userLocation,
                             towards |-> towards]
              newBearing == calculateBearingSkyPing(userLocation, mockPlane)
              near == /\ distance < SKYPING_RADIUS_KM
                      /\ MINIMUM_ALTITUDE_FT + extraFt > MINIMUM_ALTITUDE_FT
              new  == detectedPlane.icao24 # id
          IN  /\ bearing' = newBearing
              /\ detectedPlane' = IF ~near THEN NoPlane
                                  ELSE IF new THEN mockPlane
                                  ELSE detectedPlane
              /\ last' = [Did("SkyPing.mockFetchPlaneData") EXCEPT
                              !.signal = near /\ new,
                              !.hadPlane = detectedPlane # NoPlane]
    /\ FrameSkyPing
    /\ UNCHANGED <<isTracking, userLocation, geoPending, intervalId, audioQueue,
                   isSpeaking, audioRefs>>

\* A handleSpeakDirection of src/App.jsx without the isSpeaking.current test.
speakDirectionSkyPingNoGuard(a, ok) ==
    playNextInQueueSkyPing(
        [a EXCEPT !.queue = getDirectionPhraseCompound(2 * bearing)], ok)

\* handleSpeakDirection of src/App.jsx: the phrase of the bearing state.
speakDirectionSkyPing(a, ok) ==
    IF a.speaking THEN a
    ELSE playNextInQueueSkyPing(
             [a EXCEPT !.queue = getDirectionPhraseCompound(2 * bearing)], ok)

\* The button of PlaneNotification, rendered while detectedPlane is set.
handleSpeakDirectionSkyPing ==
    /\ detectedPlane # NoPlane
    /\ \E ok \in BOOLEAN : SetAudioSkyPing(speakDirectionSkyPing(AudioSkyPing, ok))
    /\ last' = [Did("SkyPing.handleSpeakDirection") EXCEPT
                    !.wasSpeaking = isSpeaking]
    /\ FrameSkyPing
    /\ UNCHANGED <<isTracking, userLocation, detectedPlane, bearing, geoPending,
                   intervalId>>

\* audio.onended = playNextInQueue
AudioEndedSkyPing ==
    /\ \E token \in Refs :
          /\ audioRefs[token] = "playing"
          /\ \E ok \in BOOLEAN :
                SetAudioSkyPing(playNextInQueueSkyPing(
                    [AudioSkyPing EXCEPT !.refs[token] = "paused"], ok))
    /\ last' = Did("SkyPing.onended")
    /\ FrameSkyPing
    /\ UNCHANGED <<isTracking, userLocation, detectedPlane, bearing, geoPending,
                   intervalId>>

\* audio.play().catch(e => console.error(...))
PlayRejectedSkyPing ==
    /\ \E token \in Refs :
          /\ audioRefs[token] = "failing"
          /\ audioRefs' = [audioRefs EXCEPT ![token] = "paused"]
    /\ last' = Did("SkyPing.play.catch")
    /\ FrameSkyPing
    /\ UNCHANGED <<isTracking, userLocation, detectedPlane, bearing, geoPending,
                   intervalId, audioQueue, isSpeaking>>

NextSkyPing ==
    \/ handleStartStopClickSkyPing
    \/ PositionCallbackSkyPing
    \/ mockFetchPlaneDataSkyPing
    \/ handleSpeakDirectionSkyPing
    \/ AudioEndedSkyPing
    \/ PlayRejectedSkyPing

SpecSkyPing == Init /\ [][NextSkyPing]_vars

\* ------------------------------------------------- playNextInQueue on any queue
\* getDirectionPhrase only yields tokens that have a clip, so the programs
\* never queue a token without one.  To see playNextInQueue and stopAllAudio
\* on every queue, this specification starts in a live session that has
\* notified an aircraft, with any queue of up to MaxQueue tokens, a clip
\* playing or none; "Up" and "between" have no clip in soundFiles.
Tokens == {"North", "East", "between", "Up"}

InitQueue ==
    /\ isTracking = TRUE
    /\ isMockMode = FALSE
    /\ userLocation = "reported"
    /\ detectedPlane = [icao24 |-> "A", pos |-> "p1",
                        altitude_ft |-> altitudeFt(3049), isMock |-> FALSE]
    /\ bearing = calculateBearing("reported", "p1")
    /\ statusMessage = "Scanning the skies for live data..."
    /\ audioQueue \in SeqsUpTo(Tokens, MaxQueue)
    /\ isSpeaking \in BOOLEAN
    /\ audioPlayer = IF isSpeaking THEN "playing" ELSE "paused"
    /\ audioSrc = IF isSpeaking THEN "North" ELSE NULL
    /\ audioRefs = [token \in Refs |-> "paused"]
    /\ geoSupported = TRUE
    /\ phraseBearing = 0
    /\ geoPending = 0
    /\ inflight = <<>>
    /\ intervalId = TRUE
    /\ mockIntervalId = FALSE
    /\ mockCallDue = FALSE
    /\ scanningInterval = FALSE
    /\ scanTicks = 0
    /\ last = Did("init")
    /\ run = NoRun
    /\ sigSince = NoSignals
    /\ sequential = TRUE
    /\ closestChosen = TRUE
    /\ pinned = TRUE

NextQueue ==
    \/ handleStartStopClick
    \/ handleSpeakDirection
    \/ AudioEnded
    \/ PlayRejected

SpecQueue == InitQueue /\ [][NextQueue]_vars

\* ------------------------------------------------- getDirectionPhrase alone
\* getDirectionPhrase on every bearing of the half-degree grid of [0, 360),
\* which holds every sector edge (22.5, 67.5, ..., 337.5): the argument is
\* phraseBearing, the handler loads the phrase into audioQueue as
\* handleSpeakDirection does (audioQueue.current = [...phrase]).

\* The conditions of the if statements of getDirectionPhrase, in order; they
\* are the same in both phrase policies.
SectorTest(k, h) ==
    CASE k = 1 -> h > 675 \/ h <= 45
      [] k = 2 -> h > 45 /\ h <= 135
      [] k = 3 -> h > 135 /\ h <= 225
      [] k = 4 -> h > 225 /\ h <= 315
      [] k = 5 -> h > 315 /\ h <= 405
      [] k = 6 -> h > 405 /\ h <= 495
      [] k = 7 -> h > 495 /\ h <= 585
      [] k = 8 -> h > 585 /\ h <= 675

InitPhrase ==
    /\ isTracking = FALSE
    /\ isMockMode = FALSE
    /\ userLocation = NULL
    /\ detectedPlane = NoPlane
    /\ bearing = 0
    /\ statusMessage = "Vimaanam Compass your compass to happiness."
    /\ audioQueue = <<>>
    /\ isSpeaking = FALSE
    /\ audioPlayer = "paused"
    /\ audioSrc = NULL
    /\ audioRefs = [token \in Refs |-> "paused"]
    /\ geoSupported = TRUE
    /\ phraseBearing \in 0..MaxHalfDegrees
    /\ geoPending = 0
    /\ inflight = <<>>
    /\ intervalId = FALSE
    /\ mockIntervalId = FALSE
    /\ mockCallDue = FALSE
    /\ scanningInterval = FALSE
    /\ scanTicks = 0
    /\ last = Did("init")
    /\ run = NoRun
    /\ sigSince = NoSignals
    /\ sequential = TRUE
    /\ closestChosen = TRUE
    /\ pinned = FALSE

FramePhrase ==
    UNCHANGED <<isTracking, isMockMode, userLocation, detectedPlane, bearing,
                statusMessage, isSpeaking, audioPlayer, audioSrc, audioRefs, geoSupported,
                phraseBearing, geoPending, inflight, intervalId, mockIntervalId,
                mockCallDue, scanningInterval, scanTicks, run, sigSince,
                sequential, closestChosen, pinned>>

\* const phrase = getDirectionPhrase(planeBearing), named-intercardinal policy.
PhraseNamed ==
    /\ audioQueue' = getDirectionPhrase(phraseBearing)
    /\ last' = Did("getDirectionPhrase")
    /\ FramePhrase

\* const phrase = getDirectionPhrase(bearing), compound policy.
PhraseCompound ==
    /\ audioQueue' = getDirectionPhraseCompound(phraseBearing)
    /\ last' = Did("SkyPing.getDirectionPhrase")
    /\ FramePhrase

NextPhrase == PhraseNamed \/ PhraseCompound

SpecPhrase == InitPhrase /\ [][NextPhrase]_vars

\* ------------------------------------------------------------------ claims
LiveDone == last.op = "fetchRealPlaneData.then"

DistanceAt(k) == calculateDistance(last.loc, last.planes[k].pos)

AdmittedAt(k) == Admitted(DistanceAt(k), altitudeFt(last.planes[k].altitude_m))

\* C1: in a live session whose polls are processed one after another, a run
\* of consecutive polls with the same notification candidate has fired the
\* new-detection signal exactly once; this includes a run that starts after
\* the identity failed admission and NotifiedAircraft was cleared.
C1_DebounceOnce == (sequential /\ run.id # NULL) => run.signals = 1

\* X was cleared, qualified again, and has been the candidate of two polls.
C1_Witness ==
    /\ sequential
    /\ run.id # NULL
    /\ run.after = run.id
    /\ run.len >= 2
    /\ run.signals = 1

C3_CandidateIsClosestQualifying ==
    (/\ LiveDone
     /\ \A j, k \in 1..Len(last.planes) :
            last.planes[j].icao24 = last.planes[k].icao24 => j = k) =>
        LET q == {k \in 1..Len(last.planes) : AdmittedAt(k)}
        IN  IF q = {} THEN last.cand = NoPlane
            ELSE \E k \in q :
                    /\ last.cand # NoPlane
                    /\ last.cand.icao24 = last.planes[k].icao24
                    /\ last.cand.pos = last.planes[k].pos
                    /\ \A j \in q : DistanceAt(k) <= DistanceAt(j)

\* C4: after a live poll with a non-empty batch, Bearing is the bearing from
\* the poll's user position to a sighting of minimum distance among all the
\* sightings of the batch.
C4_CompassIsNearest ==
    (LiveDone /\ last.planes # <<>>) =>
        \E k \in 1..Len(last.planes) :
            /\ \A j \in 1..Len(last.planes) : DistanceAt(k) <= DistanceAt(j)
            /\ bearing = calculateBearing(last.loc, last.planes[k].pos)

\* The nearest sighting came second in the batch and is not admitted, while
\* another sighting of the batch is the notification candidate.
C4_Witness ==
    /\ LiveDone
    /\ Len(last.planes) = 2
    /\ last.compass = last.planes[2]
    /\ ~AdmittedAt(2)
    /\ last.cand # NoPlane

\* C5: a live poll that receives an empty list leaves Bearing as it was,
\* leaves NotifiedAircraft none and fires no signal.
C5_EmptyPoll ==
    [][(last'.op = "fetchRealPlaneData.then" /\ last'.planes = <<>>) =>
          /\ bearing' = bearing
          /\ detectedPlane' = NoPlane
          /\ ~last'.signal]_vars

\* An empty poll cleared a NotifiedAircraft that was set.
C5_Witness ==
    /\ LiveDone
    /\ last.planes = <<>>
    /\ last.hadPlane
    /\ detectedPlane = NoPlane

\* C6: live tracking and mock tracking are never both active.
C6_MutualExclusion == ~(isTracking /\ isMockMode)

\* Live tracking was started while mock tracking was active.
C6_Witness ==
    /\ last.op = "handleStartStopClick"
    /\ last.switched
    /\ isTracking

\* C7: a step that starts one mode while the other is active deactivates the
\* other, clears NotifiedAircraft, empties the queue and clears the flag.
C7_SwitchClears ==
    [][(\/ isMockMode /\ ~isTracking /\ isTracking'
        \/ isTracking /\ ~isMockMode /\ isMockMode') =>
          /\ isMockMode => ~isMockMode'
          /\ isTracking => ~isTracking'
          /\ detectedPlane' = NoPlane
          /\ audioQueue' = <<>>
          /\ ~isSpeaking']_vars

\* A mode was started while the other was active, a NotifiedAircraft was set
\* and a narration was playing.
C7_Witness ==
    /\ last.op \in {"handleStartStopClick", "handleMockModeClick"}
    /\ last.switched
    /\ last.hadPlane
    /\ last.wasSpeaking
    /\ isTracking \/ isMockMode
    /\ detectedPlane = NoPlane
    /\ ~isSpeaking

\* C8: the idle-rotation timer is not scheduled while NotifiedAircraft is
\* set, and no idle-rotation step changes Bearing while it is set.
C8_NoIdleRotationWhileNotified ==
    /\ [](detectedPlane # NoPlane => ~scanningInterval)
    /\ [][(last'.op = "scanningInterval" /\ bearing' # bearing) =>
             detectedPlane = NoPlane]_vars

\* A poll of an active mode has just promoted a NotifiedAircraft.
C8_Witness ==
    /\ isTracking \/ isMockMode
    /\ last.op \in {"fetchRealPlaneData.then", "mockFetchPlaneData"}
    /\ last.signal
    /\ ~last.hadPlane
    /\ detectedPlane # NoPlane
    /\ ~scanningInterval

\* C9: a poll assigns Bearing only in a state where the idle-rotation timer
\* is not scheduled.
C9_PollWritesWhileSuspended ==
    [][(/\ last'.op \in {"fetchRealPlaneData.then", "mockFetchPlaneData"}
        /\ last'.compass # NoPlane) => ~scanningInterval]_vars

\* C10: once a poll with a non-empty list has committed Bearing, no
\* idle-rotation step changes Bearing before the next poll commit.
C10_NoOverwriteAfterCommit ==
    [][pinned => ~(last'.op = "scanningInterval" /\ bearing' # bearing)]_vars

\* A poll has just been processed: the continuation of a live fetch, or a
\* mock poll.
PollDone == last.op \in {"fetchRealPlaneData.then", "mockFetchPlaneData"}

\* C11: processing a poll starts no poll: the live response leaves one fetch
\* fewer in flight, and no call of mockFetchPlaneData() is due after a mock
\* poll; polls start on entering a mode and when the interval fires.
C11_PollStartsNoPoll ==
    [][PollDone' =>
          /\ Len(inflight') = Len(inflight)
                - (IF last'.op = "fetchRealPlaneData.then" THEN 1 ELSE 0)
          /\ ~mockCallDue']_vars

\* C12: a step that stops the active mode (no mode is active after it)
\* leaves no poll interval and no scanning interval scheduled, no mock poll
\* due, the narration queue empty and the playing flag false.
C12_StopCancels ==
    [][((isTracking \/ isMockMode) /\ ~isTracking' /\ ~isMockMode') =>
          /\ ~intervalId'
          /\ ~mockIntervalId'
          /\ ~mockCallDue'
          /\ ~scanningInterval'
          /\ audioQueue' = <<>>
          /\ ~isSpeaking']_vars

\* A mode with a resolved position, and so with its poll interval scheduled,
\* was stopped while a narration was playing.
C12_Witness ==
    /\ last.op \in {"handleStartStopClick", "handleMockModeClick"}
    /\ ~isTracking
    /\ ~isMockMode
    /\ userLocation # NULL
    /\ last.wasSpeaking
    /\ ~intervalId
    /\ ~scanningInterval

\* C13: while no mode is active, no step changes Bearing or NotifiedAircraft
\* and no new-detection signal fires; this covers the response of a fetch
\* that was started before the stop.
C13_NothingAfterStop ==
    [][(~isTracking /\ ~isMockMode /\ ~isTracking' /\ ~isMockMode') =>
          /\ bearing' = bearing
          /\ detectedPlane' = detectedPlane
          /\ ~(PollDone' /\ last'.signal)]_vars

\* C14: the catch block of a failed live fetch changes the status message
\* and nothing else: Bearing, NotifiedAircraft and the narration are
\* unchanged, no signal fires, and the poll interval of an active live
\* session with a position stays scheduled for the next poll.
C14_FailureKeepsState ==
    [][last'.op = "fetchRealPlaneData.catch" =>
          /\ bearing' = bearing
          /\ detectedPlane' = detectedPlane
          /\ ~last'.signal
          /\ statusMessage' = "Error connecting to server. Is it running?"
          /\ UNCHANGED <<isTracking, isMockMode, userLocation, audioQueue,
                         isSpeaking, audioPlayer, audioSrc, intervalId, mockIntervalId,
                         scanningInterval>>
          /\ (isTracking /\ userLocation # NULL) => intervalId']_vars

\* A fetch failed in a live session with a NotifiedAircraft set and a
\* Bearing written by an earlier poll.
C14_Witness ==
    /\ last.op = "fetchRealPlaneData.catch"
    /\ isTracking
    /\ detectedPlane # NoPlane
    /\ pinned
    /\ intervalId
    /\ statusMessage = "Error connecting to server. Is it running?"

\* C15: once a mode has been started, the user position eventually is set,
\* whatever the location collaborator does (success, error, or no
\* geolocation in the browser).
C15_PositionEventuallySet ==
    (isTracking \/ isMockMode) ~> (userLocation # NULL)

\* C16: a narration request made while the playing flag is set changes
\* neither the queue nor the flag nor the player.
C16_BusyRequestIsNoOp ==
    [][(last'.op = "handleSpeakDirection" /\ isSpeaking) =>
          UNCHANGED <<audioQueue, isSpeaking, audioPlayer, audioSrc>>]_vars

\* A request was made while a clip was playing.
C16_Witness ==
    /\ last.op = "handleSpeakDirection"
    /\ last.wasSpeaking
    /\ isSpeaking
    /\ audioPlayer = "playing"

\* The Audio elements of src/App.jsx whose clip is playing.
PlayingSkyPing == {token \in Refs : audioRefs[token] = "playing"}

\* C17 (src/App.jsx): at most one clip plays at a time, and a step calls
\* play() on an element only as an accepted request, for the first token of
\* its phrase, or as the ended event of the playing clip, for the token at
\* the head of the queue; the rest of the queue follows in order.
C17_OneClipInOrder ==
    /\ [](Cardinality(PlayingSkyPing) <= 1)
    /\ [][\A token \in Refs :
            (audioRefs[token] = "paused" /\ audioRefs'[token] # "paused") =>
               \/ /\ last'.op = "SkyPing.handleSpeakDirection"
                  /\ ~isSpeaking
                  /\ PlayingSkyPing = {}
                  /\ <<token>> \o audioQueue' = getDirectionPhraseCompound(2 * bearing)
               \/ /\ last'.op = "SkyPing.onended"
                  /\ PlayingSkyPing' \subseteq {token}
                  /\ <<token>> \o audioQueue' = audioQueue]_vars

\* The ended event of "between" started "North", with "and", "East" queued.
C17_Witness ==
    /\ last.op = "SkyPing.onended"
    /\ audioRefs["North"] = "playing"
    /\ audioQueue = <<"and", "East">>
    /\ isSpeaking

\* C18: a click, which calls stopAllAudio(), leaves the queue empty, the
\* flag false and the player paused, whatever was playing or queued; and a
\* narration request right after it is accepted: it sets the flag and calls
\* play().
C18_StopAll ==
    /\ [][last'.op = "handleStartStopClick" =>
             /\ audioQueue' = <<>>
             /\ ~isSpeaking'
             /\ audioPlayer' = "paused"]_vars
    /\ [][(last.op = "handleStartStopClick" /\ last'.op = "handleSpeakDirection") =>
             /\ isSpeaking'
             /\ audioPlayer' \in {"playing", "failing"}]_vars

\* stopAllAudio() ran while a clip was playing and tokens were queued.
C18_Witness ==
    /\ last.op = "handleStartStopClick"
    /\ last.wasSpeaking
    /\ last.hadQueue
    /\ audioQueue = <<>>
    /\ ~isSpeaking
    /\ detectedPlane # NoPlane

\* C19: the rejection of play() is handled as the completion of the clip:
\* with tokens queued the next one is started, with none the playing flag
\* is cleared.
C19_RejectionAdvances ==
    [][last'.op \in {"play.catch", "SkyPing.play.catch"} =>
          IF audioQueue = <<>>
            THEN ~isSpeaking'
            ELSE /\ audioQueue' = Tail(audioQueue)
                 /\ isSpeaking'
                 /\ audioRefs'[Head(audioQueue)] # "paused"]_vars

\* The tokens of q after its first token that has a clip; none if no token
\* has one.
RECURSIVE AfterFirstClip(_)
AfterFirstClip(q) ==
    IF q = <<>> THEN <<>>
    ELSE IF Head(q) \in soundFiles THEN Tail(q)
    ELSE AfterFirstClip(Tail(q))

\* C20: an ended event that finds a token without a clip at the head of the
\* queue drops it and, in the same step, goes on to the first token that
\* has a clip and plays it; if no queued token has a clip, the queue ends
\* empty with the playing flag cleared and nothing played.
C20_SkipsUnmapped ==
    [][(/\ last'.op = "onEnded"
        /\ audioQueue # <<>>
        /\ Head(audioQueue) \notin soundFiles) =>
          /\ audioQueue' = AfterFirstClip(audioQueue)
          /\ IF \E k \in 1..Len(audioQueue) : audioQueue[k] \in soundFiles
               THEN isSpeaking' /\ audioPlayer' \in {"playing", "failing"}
               ELSE ~isSpeaking' /\ audioPlayer' = "paused"]_vars

\* An ended event found tokens queued and none of them had a clip.
C20_Witness ==
    /\ last.op = "onEnded"
    /\ last.hadQueue
    /\ audioQueue = <<>>
    /\ ~isSpeaking
    /\ audioPlayer = "paused"

PhraseDone == last.op \in {"getDirectionPhrase", "SkyPing.getDirectionPhrase"}

\* C21: for every bearing of the half-degree grid of [0, 360),
\* getDirectionPhrase returns a non-empty phrase under both policies: the
\* final return [] is not reached.
C21_PhraseNonEmpty ==
    (PhraseDone /\ phraseBearing < 720) => audioQueue # <<>>

\* A phrase was computed for the bearing 359.5 under the compound policy.
C21_Witness ==
    /\ last.op = "SkyPing.getDirectionPhrase"
    /\ phraseBearing = 719
    /\ audioQueue = <<"North">>

\* C22: getDirectionPhrase returns the North phrase for the bearing 0, for
\* the bearing 337.5 and for every bearing between 337.5 and 360.
C22_NorthWrap ==
    (PhraseDone /\ (phraseBearing = 0 \/ (phraseBearing >= 675 /\ phraseBearing < 720)))
        => audioQueue = <<"North">>

\* The cardinals, clockwise.
Cardinals == <<"North", "East", "South", "West">>

\* The sector of the bearing h (half degrees), counted clockwise from North
\* as 0; a sector owns its upper edge.
SectorOf(h) == ((h + 44) \div 90) % 8

\* C23: under the compound policy a cardinal sector maps to its cardinal
\* alone and a band between cardinals to <<"between", A, "and", B>> with A, B
\* the flanking cardinals clockwise; under the named policy every sector
\* maps to one token, the bearing 45 to "NorthEast".
C23_PhraseShape ==
    LET k == SectorOf(phraseBearing)
    IN  /\ (last.op = "SkyPing.getDirectionPhrase" /\ phraseBearing < 720) =>
              IF k % 2 = 0
                THEN audioQueue = <<Cardinals[(k \div 2) + 1]>>
                ELSE audioQueue = <<"between", Cardinals[((k - 1) \div 2) + 1],
                                    "and", Cardinals[(((k + 1) \div 2) % 4) + 1]>>
        /\ (last.op = "getDirectionPhrase" /\ phraseBearing < 720) =>
              /\ Len(audioQueue) = 1
              /\ phraseBearing = 90 => audioQueue = <<"NorthEast">>

\* The phrase of the bearing 45 under the compound policy.
C23_Witness ==
    /\ last.op = "SkyPing.getDirectionPhrase"
    /\ phraseBearing = 90
    /\ audioQueue = <<"between", "North", "and", "East">>

\* The sector edges other than the North wrap, in half degrees.
InnerEdges == {45, 135, 225, 315, 405, 495, 585}

\* C24: under both policies exactly one if statement of getDirectionPhrase
\* matches a bearing of [0, 360), and a bearing on an inner sector edge gets
\* the phrase of the sector below the edge, not of the sector above it.
C24_ClosedUpperPartition ==
    LET phraseOf(h) == IF last.op = "getDirectionPhrase"
                         THEN getDirectionPhrase(h)
                         ELSE getDirectionPhraseCompound(h)
    IN  (PhraseDone /\ phraseBearing < 720) =>
           /\ Cardinality({k \in 1..8 : SectorTest(k, phraseBearing)}) = 1
           /\ \A k \in 1..8 :
                 SectorTest(k, phraseBearing) =>
                    audioQueue = phraseOf(45 + 90 * (k - 1))
           /\ phraseBearing \in InnerEdges =>
                 /\ audioQueue = phraseOf(phraseBearing - 1)
                 /\ audioQueue # phraseOf(phraseBearing + 1)

\* The phrase of the edge 67.5 is the phrase of the sector below it.
C24_Witness ==
    /\ last.op = "getDirectionPhrase"
    /\ phraseBearing = 135
    /\ audioQueue = <<"NorthEast">>

\* C25: the live polling interval is strictly longer than the mock polling
\* interval, whenever either is scheduled.
C25_LiveIntervalLonger ==
    (intervalId \/ mockIntervalId) => TRACKING_INTERVAL_MS > MOCK_TRACKING_INTERVAL_MS

\* C26: a live poll whose candidate has the identity of the NotifiedAircraft
\* that is current when its response is processed leaves NotifiedAircraft
\* unchanged and fires no signal; so two overlapping polls that report the
\* same identity promote and signal once.
C26_CompareWithCurrent ==
    [][(/\ last'.op = "fetchRealPlaneData.then"
        /\ isTracking
        /\ last'.cand # NoPlane
        /\ detectedPlane # NoPlane
        /\ last'.cand.icao24 = detectedPlane.icao24) =>
          /\ ~last'.signal
          /\ detectedPlane' = detectedPlane]_vars

\* C27: when a batch holds two sightings of one identity and both are
\* admitted, one of the two is both the compass target and the notification
\* candidate.
C27_DuplicatesAsOne ==
    (/\ LiveDone
     /\ Len(last.planes) = 2
     /\ last.planes[1].icao24 = last.planes[2].icao24
     /\ AdmittedAt(1)
     /\ AdmittedAt(2)) =>
        /\ last.cand # NoPlane
        /\ last.compass # NoPlane
        /\ last.cand.pos = last.compass.pos

\* C29: Bearing is a whole number of degrees with 0 <= Bearing < 360.
C29_BearingInRange == bearing \in 0..359

\* An idle-rotation step has wrapped Bearing from 359 to 1.
C29_Witness ==
    /\ last.op = "scanningInterval"
    /\ bearing = 1

\* C30: a NotifiedAircraft that is set while live tracking is active is not
\* flagged isMock, and one that is set while mock tracking is active is.
C30_FlagMatchesMode ==
    detectedPlane # NoPlane =>
        /\ isTracking => ~detectedPlane.isMock
        /\ isMockMode => detectedPlane.isMock

\* C28: the phrase loaded by an accepted narration request is
\* getDirectionPhrase of the bearing from the current user position to the
\* position stored in NotifiedAircraft, whatever the value of Bearing: in
\* src/App.jsx the clip started and the tokens queued are that phrase.
C28_PhraseFromStoredPosition ==
    [][(/\ last'.op = "SkyPing.handleSpeakDirection"
        /\ ~isSpeaking
        /\ detectedPlane # NoPlane) =>
          LET phrase == getDirectionPhraseCompound(
                            2 * calculateBearingSkyPing(userLocation, detectedPlane))
          IN  /\ audioRefs'[Head(phrase)] # "paused"
              /\ audioQueue' = Tail(phrase)]_vars

\* The same for the App of part_000 lines 1-366, whose phrases have one
\* token: the src of the <audio> element is the clip of that phrase.
PhraseFromStoredPosition ==
    [][(/\ last'.op = "handleSpeakDirection"
        /\ ~isSpeaking
        /\ detectedPlane # NoPlane) =>
          LET phrase == getDirectionPhrase(
                            2 * calculateBearing(userLocation, detectedPlane.pos))
          IN  /\ audioSrc' = Head(phrase)
              /\ audioQueue' = Tail(phrase)
              /\ audioPlayer' \in {"playing", "failing"}]_vars

\* An accepted request while Bearing points at another, nearer sighting: the
\* clip is the one of the NotifiedAircraft's bearing.
PhraseFromStoredPosition_Witness ==
    /\ last.op = "handleSpeakDirection"
    /\ ~last.wasSpeaking
    /\ detectedPlane # NoPlane
    /\ getDirectionPhrase(2 * bearing)
          # getDirectionPhrase(2 * calculateBearing(userLocation, detectedPlane.pos))
    /\ <<audioSrc>> = getDirectionPhrase(
                          2 * calculateBearing(userLocation, detectedPlane.pos))

\* C31: whenever NotifiedAircraft is set the user position is set; a step
\* that sets NotifiedAircraft to a new value is a poll, and that poll read a
\* position that was set.
C31_NotifiedHasPosition ==
    /\ [](detectedPlane # NoPlane => userLocation # NULL)
    /\ [][(detectedPlane' # NoPlane /\ detectedPlane' # detectedPlane) =>
             /\ PollDone'
             /\ last'.signal
             /\ last'.loc # NULL]_vars

\* A narration request was accepted for a NotifiedAircraft; the position it
\* computed the bearing from is set.
C31_Witness ==
    /\ last.op = "handleSpeakDirection"
    /\ ~last.wasSpeaking
    /\ detectedPlane # NoPlane
    /\ userLocation # NULL
    /\ isSpeaking

\* C32: whenever the playing flag is false the narration queue is empty;
\* a stopAllAudio, a rejected play() and an ended event that finds nothing
\* more to play leave the queue empty.
C32_IdleQueueEmpty ==
    /\ [](~isSpeaking => audioQueue = <<>>)
    /\ [][(\/ last'.op \in {"handleStartStopClick", "handleMockModeClick", "play.catch"}
           \/ last'.op = "onEnded" /\ ~isSpeaking') =>
             audioQueue' = <<>>]_vars

\* play() of the clip of a phrase was rejected: the flag is cleared and no
\* token is queued.
C32_Witness ==
    /\ last.op = "play.catch"
    /\ ~isSpeaking
    /\ audioQueue = <<>>
    /\ audioSrc # NULL
    /\ detectedPlane # NoPlane

====
